---- MODULE Spec2Model ----
(***************************************************************************)
(* Model of the BitcoinCoreWallet adapter (src/providers/bitcoin_core_     *)
(* wallet.ts) and of the WalletProvider contract it implements.            *)
(*                                                                         *)
(* The adapter is a set of async methods over one RPC client.  Every       *)
(* `await this.client.X(...)` is a suspension point: the method issues the *)
(* request, and a later step delivers the node's response (or the RPC      *)
(* failure) and runs the method up to its next await or to its end.        *)
(*                                                                         *)
(* Numbers are JavaScript numbers (IEEE-754 binary64).  A double close to  *)
(* an integer N is written [int |-> N, eps |-> E] and stands for           *)
(* N + E * 2^-53; the arithmetic below rounds as binary64 does.            *)
(***************************************************************************)
EXTENDS Integers, Sequences, FiniteSets, TLC

(***************************************************************************)
(* Bounds of the model.                                                    *)
(***************************************************************************)
MaxUtxos == 2
MaxPsbts == 3
MaxConcurrentPsbts == 2
MaxAddrs == 2

(***************************************************************************)
(* IEEE-754 binary64 arithmetic on the values the adapter computes.        *)
(***************************************************************************)
SatoshisPerBtc == 100000000

RECURSIVE Pow2(_)
Pow2(k) == IF k = 0 THEN 1 ELSE 2 * Pow2(k - 1)

RECURSIVE Log2Floor(_)
Log2Floor(n) == IF n < 2 THEN 0 ELSE 1 + Log2Floor(n \div 2)

IsPow2(n) == n = Pow2(Log2Floor(n))

\* num/den rounded to the nearest integer, ties to the even one.
RoundHalfEven(num, den) ==
  LET q == num \div den
      twice == 2 * (num - q * den)
  IN  IF twice < den THEN q
      ELSE IF twice > den THEN q + 1
      ELSE IF q % 2 = 0 THEN q ELSE q + 1

\* Spacing, in units of 2^-53, of the doubles next to the integer N on the
\* side given by the sign of the deviation.
GridAt(N, below) ==
  IF below /\ IsPow2(N) THEN Pow2(Log2Floor(N)) ELSE Pow2(Log2Floor(N) + 1)

\* The binary64 significand of the decimal n / 1e8 (0 < n < 1e8): the
\* quotient n * 2^k / 1e8 is produced bit by bit until it has 53 bits.
\* st = [rem, bit, left, k, started]
RECURSIVE DivBits(_)
DivBits(st) ==
  IF st.started /\ st.left = 0 THEN st
  ELSE LET d == 2 * st.rem
           b == IF d >= SatoshisPerBtc THEN 1 ELSE 0
           nowStarted == st.started \/ b = 1
       IN  DivBits([rem |-> d - b * SatoshisPerBtc,
                    bit |-> b,
                    left |-> IF st.started THEN st.left - 1 ELSE 52,
                    k |-> st.k + 1,
                    started |-> nowStarted])

\* JSON amount n / 1e8 parsed to the nearest double x = m / 2^k; the result
\* is [r, k] with r = n * 2^k - m * 1e8 the (scaled) parse error.
ParseError(n) ==
  LET st == DivBits([rem |-> n, bit |-> 0, left |-> 0, k |-> 0, started |-> FALSE])
      up == \/ 2 * st.rem > SatoshisPerBtc
            \/ (2 * st.rem = SatoshisPerBtc /\ st.bit = 1)
  IN  [r |-> IF up THEN st.rem - SatoshisPerBtc ELSE st.rem, k |-> st.k]

\* `utxo.amount * 1e8` for the listed amount n / 1e8 BTC: the exact product
\* is n - r / 2^k, rounded to the nearest double.
BtcToSatoshis(n) ==
  IF n = 0 THEN [int |-> 0, eps |-> 0]
  ELSE LET pe == ParseError(n)
           g == GridAt(n, pe.r > 0)
           den == Pow2(pe.k - 53) * g
       IN  [int |-> n, eps |-> RoundHalfEven(0 - pe.r, den) * g]

\* `a + b` on doubles.
DoubleAdd(a, b) ==
  LET N == a.int + b.int
      E == a.eps + b.eps
  IN  IF N = 0 \/ E = 0 THEN [int |-> N, eps |-> E]
      ELSE LET g == GridAt(N, E < 0)
           IN  [int |-> N, eps |-> RoundHalfEven(E, g) * g]

\* `x >= a` for a double x and an integer a.
DoubleGeq(x, a) == x.int > a \/ (x.int = a /\ x.eps >= 0)

DoubleZero == [int |-> 0, eps |-> 0]

(***************************************************************************)
(* Buffer conversions used by signPsbt.  A hex string is a sequence of hex *)
(* digits 0..15, a Buffer a sequence of bytes, a base64 string its         *)
(* sequence of sextets 0..63 and the number of '=' that follow them.       *)
(***************************************************************************)
\* Buffer.from(hex, 'hex'): one byte per pair of digits, a trailing single
\* digit is dropped.
BufferFromHex(hex) ==
  [k \in 1..(Len(hex) \div 2) |-> 16 * hex[2 * k - 1] + hex[2 * k]]

\* buffer.toString('hex')
BufferToHex(buf) ==
  [k \in 1..(2 * Len(buf)) |->
     IF k % 2 = 1 THEN buf[(k + 1) \div 2] \div 16 ELSE buf[k \div 2] % 16]

RECURSIVE Sextets(_)
Sextets(buf) ==
  IF Len(buf) = 0 THEN <<>>
  ELSE IF Len(buf) = 1 THEN
    <<buf[1] \div 4, (buf[1] % 4) * 16>>
  ELSE IF Len(buf) = 2 THEN
    <<buf[1] \div 4, (buf[1] % 4) * 16 + buf[2] \div 16, (buf[2] % 16) * 4>>
  ELSE
    <<buf[1] \div 4, (buf[1] % 4) * 16 + buf[2] \div 16,
      (buf[2] % 16) * 4 + buf[3] \div 64, buf[3] % 64>>
    \o Sextets(SubSeq(buf, 4, Len(buf)))

\* buffer.toString('base64')
BufferToBase64(buf) ==
  [data |-> Sextets(buf), padding |-> (3 - (Len(buf) % 3)) % 3]

RECURSIVE Octets(_)
Octets(s) ==
  IF Len(s) < 2 THEN <<>>
  ELSE IF Len(s) = 2 THEN <<s[1] * 4 + s[2] \div 16>>
  ELSE IF Len(s) = 3 THEN
    <<s[1] * 4 + s[2] \div 16, (s[2] % 16) * 16 + s[3] \div 4>>
  ELSE
    <<s[1] * 4 + s[2] \div 16, (s[2] % 16) * 16 + s[3] \div 4,
      (s[3] % 4) * 64 + s[4]>>
    \o Octets(SubSeq(s, 5, Len(s)))

\* Buffer.from(b64, 'base64')
BufferFromBase64(b64) == Octets(b64.data)

(***************************************************************************)
(* Inputs.                                                                 *)
(***************************************************************************)
Callers == {"c1", "c2"}

\* Unsigned PSBTs, as hex strings ("7073", "707362").
PsbtHexes == {<<7, 0, 7, 3>>, <<7, 0, 7, 3, 6, 2>>}

\* Unspent outputs the node may list; amount is the decimal n / 1e8 BTC of
\* the JSON response, held as n.
UtxoPool ==
  { [txid |-> "aa", vout |-> 0, amount |-> 3, scriptPubKey |-> "51"],
    [txid |-> "bb", vout |-> 1, amount |-> 7, scriptPubKey |-> "52"],
    [txid |-> "cc", vout |-> 0, amount |-> 50000, scriptPubKey |-> "53"] }

\* Sequences without repetition over S, of length at most n.
Listings(S, n) ==
  {l \in UNION {[1..k -> S] : k \in 0..n} :
     \A i, j \in DOMAIN l : i # j => l[i] # l[j]}

UtxoListings == Listings(UtxoPool, MaxUtxos)

\* The optional `amount` argument of getUtxos.
NoAmount == [given |-> FALSE, value |-> 0]
TargetAmounts == {0, 3, 10, 50000}
AmountArgs == {NoAmount} \cup {[given |-> TRUE, value |-> a] : a \in TargetAmounts}

PrimaryLabel == "primary"
OtherLabel == ""
Labels == {PrimaryLabel, OtherLabel}

EventNames == {"accountChanged", "disconnect"}
CallBacks == {"cb"}
Messages == {"hello"}
TxHexes == {"0200"}
FeeRates == {1000, 20000}
Balances == {0, 5}
TipHeights == {100, 101}

RpcErrors ==
  { [name |-> "RpcError", code |-> -28, message |-> "Loading wallet..."],
    [name |-> "RpcError", code |-> 401, message |-> "Unauthorized"] }
NoError == [name |-> "none", code |-> 0, message |-> ""]

(***************************************************************************)
(* State.                                                                  *)
(***************************************************************************)
VARIABLES
  calls,        \* per caller: the adapter method it runs and where it stands
  addressBook,  \* node wallet: the label of every address, address a = a-th created
  funded,       \* node wallet: the addresses that have received funds
  listeners,    \* the listeners registered on the RPC client
  clientHasOn   \* whether the RPC client object (typed `any`) has an `on` method

vars == <<calls, addressBook, funded, listeners, clientHasOn>>

NoRpc == [method |-> "none", params |-> <<>>]
NoOutcome == [kind |-> "none", value |-> <<>>, error |-> NoError]
Undefined == <<>>

\* A resolved promise / a normal return.
Return(v) == [kind |-> "return", value |-> v, error |-> NoError]
\* A rejected promise / a thrown error: nothing but the error reaches the caller.
Throw(e) == [kind |-> "throw", value |-> Undefined, error |-> e]

IdleCall ==
  [op |-> "none", pc |-> "idle", args |-> <<>>, rpc |-> NoRpc,
   i |-> 0, signedPsbts |-> <<>>, responses |-> <<>>, sent |-> <<>>,
   rpcFailure |-> NoError, outcome |-> NoOutcome,
   prevAddress |-> 0, fundedSince |-> FALSE]

\* The adapter instance, as a value a method can return.
Self == [adapter |-> "BitcoinCoreWallet"]

Init ==
  /\ calls = [c \in Callers |-> IdleCall]
  /\ addressBook = <<>>
  /\ funded = {}
  /\ listeners = {}
  /\ clientHasOn \in BOOLEAN

CanCall(c) == calls[c].pc \in {"idle", "done"}

Awaiting(c, op, method) ==
  /\ calls[c].pc = "await"
  /\ calls[c].op = op
  /\ calls[c].rpc.method = method

\* The method runs up to its first await and issues the request.
Issue(call, method, params) ==
  [call EXCEPT !.pc = "await", !.rpc = [method |-> method, params |-> params]]

Begin(op, args) == [IdleCall EXCEPT !.op = op, !.args = args]

Settle(call, outcome) ==
  [call EXCEPT !.pc = "done", !.rpc = NoRpc, !.outcome = outcome]

(***************************************************************************)
(* The node, as far as the adapter's requests observe it.                  *)
(***************************************************************************)
WalletName == "wallet"

\* getwalletinfo
NodeGetWalletInfo == [walletname |-> WalletName, txcount |-> Cardinality(funded)]

\* listreceivedbyaddress with its default arguments: the addresses that have
\* received funds, in address order.
NodeListReceivedByAddress ==
  LET all == [a \in 1..Len(addressBook) |-> [address |-> a, label |-> addressBook[a]]]
  IN  SelectSeq(all, LAMBDA r : r.address \in funded)

\* walletprocesspsbt: the wallet adds its signatures (one byte here) and says
\* whether the transaction is now completely signed.
NodeWalletProcessPsbt(psbtBase64, complete) ==
  LET psbt == BufferFromBase64(psbtBase64)
  IN  [psbt |-> BufferToBase64(IF complete THEN Append(psbt, 172) ELSE psbt),
       complete |-> complete]

NodePubKey(address) ==
  IF address \in 1..Len(addressBook) THEN <<"pubkey", address>> ELSE Undefined

NodeSignMessage(address, message) == <<"signature", address, message>>

NodeSendRawTransaction(txHex) == <<"txid", txHex>>

(***************************************************************************)
(* Pure parts of the adapter.                                              *)
(***************************************************************************)
\* convertBtcKvBToSatoshiPerByte: btcPerKvB * 1e8, then / 1000 (the quotient
\* is kept as the pair dividend, divisor).
convertBtcKvBToSatoshiPerByte(btcPerKvB) ==
  [satoshiPerKB |-> BtcToSatoshis(btcPerKvB), dividedBy |-> 1000]

FastestFee == 1000

Fees(feerate) ==
  LET satoshis == convertBtcKvBToSatoshiPerByte(feerate)
  IN  [fastestFee |-> FastestFee, halfHourFee |-> satoshis, hourFee |-> satoshis,
       economyFee |-> satoshis, minimumFee |-> satoshis]

\* utxos.map(...) of getUtxos
filteredUtxos(utxos) ==
  [k \in 1..Len(utxos) |->
     [txid |-> utxos[k].txid,
      vout |-> utxos[k].vout,
      value |-> BtcToSatoshis(utxos[k].amount),
      scriptPubKey |-> utxos[k].scriptPubKey]]

\* The test as it would be with `amount !== undefined`.
Truthy_Defined(amount) == amount.given

\* `if (amount)`: undefined and 0 are falsy.
Truthy(amount) == amount.given /\ amount.value # 0

\* The for loop of getUtxos from entry k on.
RECURSIVE Accumulate(_, _, _, _, _)
Accumulate(filtered, k, totalAmount, result, amount) ==
  IF k > Len(filtered) THEN [totalAmount |-> totalAmount, result |-> result]
  ELSE LET total == DoubleAdd(totalAmount, filtered[k].value)
           res == Append(result, filtered[k])
       IN  IF DoubleGeq(total, amount)
           THEN [totalAmount |-> total, result |-> res]
           ELSE Accumulate(filtered, k + 1, total, res, amount)

\* What getUtxos returns for the listing `utxos` of the node.
getUtxosResult(utxos, amount) ==
  LET filtered == filteredUtxos(utxos)
  IN  IF Truthy(amount)
      THEN LET acc == Accumulate(filtered, 1, DoubleZero, <<>>, amount.value)
           IN  IF DoubleGeq(acc.totalAmount, amount.value) THEN acc.result ELSE <<>>
      ELSE filtered

\* The request of signPsbt for one PSBT.
ProcessPsbtParams(psbtHex) == <<BufferToBase64(BufferFromHex(psbtHex))>>

\* signPsbt as it would be if it raised on an incomplete signing.
signPsbtOutcome_RaisesIncomplete(signedPsbt) ==
  IF signedPsbt.complete
  THEN Return(BufferToHex(BufferFromBase64(signedPsbt.psbt)))
  ELSE Throw([name |-> "Error", code |-> 0, message |-> "PSBT signing incomplete"])

\* How signPsbt ends on the node's response; the `complete` flag is only
\* logged.
signPsbtOutcome(signedPsbt) == Return(BufferToHex(BufferFromBase64(signedPsbt.psbt)))

\* What connectWallet returns once getWalletInfo has answered.
connectWalletResult(walletInfo) == walletInfo

\* The failure handling as it would be if getUtxos caught the error and
\* answered with an empty list.
Rejection_GetUtxosSwallows(call, e) ==
  IF call.op = "connectWallet"
  THEN Throw([name |-> "Error", code |-> 0,
              message |-> "Failed to connect to Bitcoin Core: " \o e.message])
  ELSE IF call.op = "getUtxos" THEN Return(<<>>)
  ELSE Throw(e)

\* The failure handling as it would be if signPsbts caught the error and
\* answered with the items signed so far.
Rejection_SignPsbtsReturnsSigned(call, e) ==
  IF call.op = "connectWallet"
  THEN Throw([name |-> "Error", code |-> 0,
              message |-> "Failed to connect to Bitcoin Core: " \o e.message])
  ELSE IF call.op = "signPsbts" THEN Return(call.signedPsbts)
  ELSE Throw(e)

\* What a method does with a failed RPC: connectWallet catches and wraps it,
\* no other method has a handler.
ConnectErrorPrefix == "Failed to connect to Bitcoin Core: "
Rejection(call, e) ==
  IF call.op = "connectWallet"
  THEN Throw([name |-> "Error", code |-> 0, message |-> ConnectErrorPrefix \o e.message])
  ELSE Throw(e)

\* Which address getAddress takes from the listing, 0 when it asks for a new one.
ListedAddress(addresses) ==
  IF Len(addresses) > 0 /\ addresses[1].address # 0 THEN addresses[1].address ELSE 0

\* The caller of getAddress goes on with the address.
AddressObtained(call, address) ==
  CASE call.op = "getAddress" -> Settle(call, Return(address))
    [] call.op = "getPublicKeyHex" -> Issue(call, "validateAddress", <<address>>)
    [] call.op = "signMessageBIP322" -> Issue(call, "signMessage", <<address, call.args[1]>>)

SetCall(c, call) == calls' = [calls EXCEPT ![c] = call]

MarkFunded(cs) == [c \in Callers |-> [cs[c] EXCEPT !.fundedSince = TRUE]]

\* The address a directly preceding getAddress of this caller returned, if no
\* funds arrived since; 0 otherwise.
PrecedingAddress(call) ==
  IF /\ call.op = "getAddress" /\ call.outcome.kind = "return" /\ ~call.fundedSince
  THEN call.outcome.value ELSE 0

(***************************************************************************)
(* Methods: the call, and one step per awaited response.                   *)
(***************************************************************************)
connectWallet(c) ==
  /\ CanCall(c)
  /\ SetCall(c, Issue(Begin("connectWallet", <<>>), "getWalletInfo", <<>>))
  /\ UNCHANGED <<addressBook, funded, listeners, clientHasOn>>

connectWallet_getWalletInfo(c) ==
  /\ Awaiting(c, "connectWallet", "getWalletInfo")
  /\ SetCall(c, Settle(calls[c], Return(connectWalletResult(NodeGetWalletInfo))))
  /\ UNCHANGED <<addressBook, funded, listeners, clientHasOn>>

\* on is synchronous: this.client.on(eventName, callBack)
on(c) ==
  /\ CanCall(c)
  /\ \E eventName \in EventNames, callBack \in CallBacks :
       LET call == Begin("on", <<eventName, callBack>>)
       IN  IF clientHasOn
           THEN /\ listeners' = listeners \cup {<<eventName, callBack>>}
                /\ SetCall(c, Settle(call, Return(Undefined)))
           ELSE /\ listeners' = listeners
                /\ SetCall(c, Settle(call, Throw([name |-> "TypeError", code |-> 0,
                                 message |-> "this.client.on is not a function"])))
  /\ UNCHANGED <<addressBook, funded, clientHasOn>>

getAddress(c) ==
  /\ CanCall(c)
  /\ SetCall(c, Issue([Begin("getAddress", <<>>) EXCEPT
                         !.prevAddress = PrecedingAddress(calls[c])],
                      "listReceivedByAddress", <<>>))
  /\ UNCHANGED <<addressBook, funded, listeners, clientHasOn>>

getPublicKeyHex(c) ==
  /\ CanCall(c)
  /\ SetCall(c, Issue(Begin("getPublicKeyHex", <<>>), "listReceivedByAddress", <<>>))
  /\ UNCHANGED <<addressBook, funded, listeners, clientHasOn>>

signMessageBIP322(c) ==
  /\ CanCall(c)
  /\ \E message \in Messages :
       SetCall(c, Issue(Begin("signMessageBIP322", <<message>>),
                        "listReceivedByAddress", <<>>))
  /\ UNCHANGED <<addressBook, funded, listeners, clientHasOn>>

\* getAddress (also as called by getPublicKeyHex and signMessageBIP322) after
\* listReceivedByAddress answered.
getAddress_listReceivedByAddress(c) ==
  /\ calls[c].pc = "await"
  /\ calls[c].rpc.method = "listReceivedByAddress"
  /\ LET address == ListedAddress(NodeListReceivedByAddress)
     IN  IF address # 0
         THEN SetCall(c, AddressObtained(calls[c], address))
         ELSE SetCall(c, Issue(calls[c], "getNewAddress", <<PrimaryLabel, "bech32">>))
  /\ UNCHANGED <<addressBook, funded, listeners, clientHasOn>>

\* ... after getNewAddress answered: the node has created a new address.
getAddress_getNewAddress(c) ==
  /\ calls[c].pc = "await"
  /\ calls[c].rpc.method = "getNewAddress"
  /\ Len(addressBook) < MaxAddrs
  /\ addressBook' = Append(addressBook, calls[c].rpc.params[1])
  /\ SetCall(c, AddressObtained(calls[c], Len(addressBook) + 1))
  /\ UNCHANGED <<funded, listeners, clientHasOn>>

getPublicKeyHex_validateAddress(c) ==
  /\ Awaiting(c, "getPublicKeyHex", "validateAddress")
  /\ \E pubkey \in {NodePubKey(calls[c].rpc.params[1]), Undefined} :
       SetCall(c, Settle(calls[c], Return(pubkey)))
  /\ UNCHANGED <<addressBook, funded, listeners, clientHasOn>>

signMessageBIP322_signMessage(c) ==
  /\ Awaiting(c, "signMessageBIP322", "signMessage")
  /\ SetCall(c, Settle(calls[c],
        Return(NodeSignMessage(calls[c].rpc.params[1], calls[c].rpc.params[2]))))
  /\ UNCHANGED <<addressBook, funded, listeners, clientHasOn>>

getPublicKey(c) ==
  /\ CanCall(c)
  /\ \E address \in 1..MaxAddrs :
       SetCall(c, Issue(Begin("getPublicKey", <<address>>), "getAddressInfo", <<address>>))
  /\ UNCHANGED <<addressBook, funded, listeners, clientHasOn>>

getPublicKey_getAddressInfo(c) ==
  /\ Awaiting(c, "getPublicKey", "getAddressInfo")
  /\ SetCall(c, Settle(calls[c], Return(NodePubKey(calls[c].rpc.params[1]))))
  /\ UNCHANGED <<addressBook, funded, listeners, clientHasOn>>

signPsbt(c) ==
  /\ CanCall(c)
  /\ \E psbtHex \in PsbtHexes :
       SetCall(c, Issue(Begin("signPsbt", <<psbtHex>>),
                        "walletProcessPsbt", ProcessPsbtParams(psbtHex)))
  /\ UNCHANGED <<addressBook, funded, listeners, clientHasOn>>

signPsbt_walletProcessPsbt(c) ==
  /\ Awaiting(c, "signPsbt", "walletProcessPsbt")
  /\ \E complete \in BOOLEAN :
       LET signedPsbt == NodeWalletProcessPsbt(calls[c].rpc.params[1], complete)
           call == [calls[c] EXCEPT !.responses = Append(@, signedPsbt)]
       IN  SetCall(c, Settle(call, signPsbtOutcome(signedPsbt)))
  /\ UNCHANGED <<addressBook, funded, listeners, clientHasOn>>

\* The accumulation as it would be with unshift in place of push.
Push_Unshift(signedPsbts, signedPsbt) == <<signedPsbt>> \o signedPsbts

\* signedPsbts.push(signedPsbt)
Push(signedPsbts, signedPsbt) == Append(signedPsbts, signedPsbt)

\* The for-of loop of signPsbts at item i: call signPsbt for it, or return
\* when the input is exhausted.
LoopSignPsbts(call) ==
  IF call.i > Len(call.args[1])
  THEN Settle(call, Return(call.signedPsbts))
  ELSE Issue([call EXCEPT !.sent = Append(@, call.i)],
             "walletProcessPsbt", ProcessPsbtParams(call.args[1][call.i]))

signPsbts(c, maxLen) ==
  /\ CanCall(c)
  /\ \E psbtsHexes \in UNION {[1..k -> PsbtHexes] : k \in 0..maxLen} :
       SetCall(c, LoopSignPsbts([Begin("signPsbts", <<psbtsHexes>>) EXCEPT !.i = 1]))
  /\ UNCHANGED <<addressBook, funded, listeners, clientHasOn>>

signPsbts_walletProcessPsbt(c) ==
  /\ Awaiting(c, "signPsbts", "walletProcessPsbt")
  /\ \E complete \in BOOLEAN :
       LET response == NodeWalletProcessPsbt(calls[c].rpc.params[1], complete)
           signedPsbt == signPsbtOutcome(response)
           call == [calls[c] EXCEPT !.responses = Append(@, response)]
       IN  IF signedPsbt.kind = "throw"
           THEN SetCall(c, Settle(call, signedPsbt))
           ELSE SetCall(c, LoopSignPsbts([call EXCEPT
                             !.signedPsbts = Push(@, signedPsbt.value),
                             !.i = @ + 1]))
  /\ UNCHANGED <<addressBook, funded, listeners, clientHasOn>>

getNetworkFees(c) ==
  /\ CanCall(c)
  /\ SetCall(c, Issue(Begin("getNetworkFees", <<>>), "estimateSmartFee", <<6>>))
  /\ UNCHANGED <<addressBook, funded, listeners, clientHasOn>>

getNetworkFees_estimateSmartFee(c) ==
  /\ Awaiting(c, "getNetworkFees", "estimateSmartFee")
  /\ \E feerate \in FeeRates :
       SetCall(c, Settle(calls[c], Return(Fees(feerate))))
  /\ UNCHANGED <<addressBook, funded, listeners, clientHasOn>>

getBalance(c) ==
  /\ CanCall(c)
  /\ SetCall(c, Issue(Begin("getBalance", <<>>), "getBalance", <<>>))
  /\ UNCHANGED <<addressBook, funded, listeners, clientHasOn>>

getBalance_getBalance(c) ==
  /\ Awaiting(c, "getBalance", "getBalance")
  /\ \E balance \in Balances :
       SetCall(c, Settle(calls[c], Return(balance)))
  /\ UNCHANGED <<addressBook, funded, listeners, clientHasOn>>

pushTx(c) ==
  /\ CanCall(c)
  /\ \E txHex \in TxHexes :
       SetCall(c, Issue(Begin("pushTx", <<txHex>>), "sendRawTransaction", <<txHex>>))
  /\ UNCHANGED <<addressBook, funded, listeners, clientHasOn>>

pushTx_sendRawTransaction(c) ==
  /\ Awaiting(c, "pushTx", "sendRawTransaction")
  /\ SetCall(c, Settle(calls[c], Return(NodeSendRawTransaction(calls[c].rpc.params[1]))))
  /\ UNCHANGED <<addressBook, funded, listeners, clientHasOn>>

getUtxos(c) ==
  /\ CanCall(c)
  /\ \E address \in 1..MaxAddrs, amount \in AmountArgs :
       SetCall(c, Issue(Begin("getUtxos", <<address, amount>>),
                        "listUnspent", <<0, 9999999, <<address>> >>))
  /\ UNCHANGED <<addressBook, funded, listeners, clientHasOn>>

getUtxos_listUnspent(c) ==
  /\ Awaiting(c, "getUtxos", "listUnspent")
  /\ \E utxos \in UtxoListings :
       LET call == [calls[c] EXCEPT !.responses = <<utxos>>]
       IN  SetCall(c, Settle(call, Return(getUtxosResult(utxos, calls[c].args[2]))))
  /\ UNCHANGED <<addressBook, funded, listeners, clientHasOn>>

getBTCTipHeight(c) ==
  /\ CanCall(c)
  /\ SetCall(c, Issue(Begin("getBTCTipHeight", <<>>), "getBlockchainInfo", <<>>))
  /\ UNCHANGED <<addressBook, funded, listeners, clientHasOn>>

getBTCTipHeight_getBlockchainInfo(c) ==
  /\ Awaiting(c, "getBTCTipHeight", "getBlockchainInfo")
  /\ \E blocks \in TipHeights :
       SetCall(c, Settle(calls[c], Return(blocks)))
  /\ UNCHANGED <<addressBook, funded, listeners, clientHasOn>>

\* mine(num, addr): generateToAddress pays the block rewards to addr.
mine(c) ==
  /\ CanCall(c)
  /\ \E addr \in 1..Len(addressBook) :
       SetCall(c, Issue(Begin("mine", <<1, addr>>), "generateToAddress", <<1, addr>>))
  /\ UNCHANGED <<addressBook, funded, listeners, clientHasOn>>

mine_generateToAddress(c) ==
  /\ Awaiting(c, "mine", "generateToAddress")
  /\ funded' = funded \cup {calls[c].rpc.params[2]}
  /\ calls' = MarkFunded([calls EXCEPT ![c] = Settle(calls[c], Return(Undefined))])
  /\ UNCHANGED <<addressBook, listeners, clientHasOn>>

\* An awaited RPC fails: the await throws inside the method.
RpcFailed(c) ==
  /\ calls[c].pc = "await"
  /\ \E e \in RpcErrors :
       SetCall(c, Settle([calls[c] EXCEPT !.rpcFailure = e], Rejection(calls[c], e)))
  /\ UNCHANGED <<addressBook, funded, listeners, clientHasOn>>

(***************************************************************************)
(* The wallet's other users.                                               *)
(***************************************************************************)
\* Somebody pays to an address of the wallet.
ReceiveFunds ==
  /\ \E a \in (1..Len(addressBook)) \ funded : funded' = funded \cup {a}
  /\ calls' = MarkFunded(calls)
  /\ UNCHANGED <<addressBook, listeners, clientHasOn>>

\* The wallet's owner creates an address outside the adapter (bitcoin-cli
\* getnewaddress), under the default label.
WalletNewAddress ==
  /\ Len(addressBook) < MaxAddrs
  /\ addressBook' = Append(addressBook, OtherLabel)
  /\ UNCHANGED <<calls, funded, listeners, clientHasOn>>

(***************************************************************************)
(* Specifications.                                                         *)
(***************************************************************************)
MainCallers == {"c1"}

Next ==
  \/ \E c \in MainCallers :
       \/ connectWallet(c) \/ connectWallet_getWalletInfo(c)
       \/ on(c)
       \/ getAddress(c) \/ getPublicKeyHex(c) \/ signMessageBIP322(c)
       \/ getAddress_listReceivedByAddress(c) \/ getAddress_getNewAddress(c)
       \/ getPublicKeyHex_validateAddress(c) \/ signMessageBIP322_signMessage(c)
       \/ getPublicKey(c) \/ getPublicKey_getAddressInfo(c)
       \/ signPsbt(c) \/ signPsbt_walletProcessPsbt(c)
       \/ signPsbts(c, MaxPsbts) \/ signPsbts_walletProcessPsbt(c)
       \/ getNetworkFees(c) \/ getNetworkFees_estimateSmartFee(c)
       \/ getBalance(c) \/ getBalance_getBalance(c)
       \/ pushTx(c) \/ pushTx_sendRawTransaction(c)
       \/ getUtxos(c) \/ getUtxos_listUnspent(c)
       \/ getBTCTipHeight(c) \/ getBTCTipHeight_getBlockchainInfo(c)
       \/ mine(c) \/ mine_generateToAddress(c)
       \/ RpcFailed(c)
  \/ ReceiveFunds
  \/ WalletNewAddress

Spec == Init /\ [][Next]_vars

\* Several callers sign on the same adapter instance at the same time.
NextSign ==
  \E c \in Callers :
    \/ signPsbt(c) \/ signPsbt_walletProcessPsbt(c)
    \/ signPsbts(c, MaxConcurrentPsbts) \/ signPsbts_walletProcessPsbt(c)
    \/ RpcFailed(c)

SpecSign == Init /\ [][NextSign]_vars

(***************************************************************************)
(* Claims.                                                                 *)
(***************************************************************************)
Finished(c, op) == calls[c].op = op /\ calls[c].pc = "done"

Returned(c, op) == Finished(c, op) /\ calls[c].outcome.kind = "return"

\* A listed output with its value in satoshis as an exact integer.
ExactUtxo(utxo) ==
  [txid |-> utxo.txid, vout |-> utxo.vout,
   value |-> [int |-> utxo.amount, eps |-> 0],
   scriptPubKey |-> utxo.scriptPubKey]

RECURSIVE SumAmounts(_, _)
SumAmounts(utxos, k) == IF k = 0 THEN 0 ELSE SumAmounts(utxos, k - 1) + utxos[k].amount

\* The shortest prefix of the listing that covers a, empty when none does.
ShortestCoveringPrefix(utxos, a) ==
  IF SumAmounts(utxos, Len(utxos)) < a THEN <<>>
  ELSE LET k == CHOOSE n \in 1..Len(utxos) :
                  /\ SumAmounts(utxos, n) >= a
                  /\ \A m \in 1..(n - 1) : SumAmounts(utxos, m) < a
       IN  [j \in 1..k |-> ExactUtxo(utxos[j])]

\* C1: for a positive target amount a, getUtxos(address, a) returns the
\* shortest prefix of the backend listing (values in satoshis, order kept)
\* whose cumulative value is >= a, and the empty sequence when the whole
\* listing totals less than a.
C1_ShortestCoveringPrefix ==
  \A c \in Callers :
    (Returned(c, "getUtxos") /\ calls[c].args[2].given /\ calls[c].args[2].value > 0)
      => calls[c].outcome.value =
           ShortestCoveringPrefix(calls[c].responses[1], calls[c].args[2].value)

\* C2: getAddress called twice in succession, with no funding event between
\* the two calls, returns the same address both times.
C2_SameAddressTwice ==
  \A c \in Callers :
    (Returned(c, "getAddress") /\ calls[c].prevAddress # 0 /\ ~calls[c].fundedSince)
      => calls[c].outcome.value = calls[c].prevAddress

\* The i-th response of the node answers the request for the i-th input.
AnswersInput(response, psbtHex) ==
  response = NodeWalletProcessPsbt(BufferToBase64(BufferFromHex(psbtHex)), response.complete)

\* C3: when no RPC fails, signPsbts returns a sequence as long as its input
\* whose i-th element is the hex of the node's signed PSBT for the i-th
\* input, whatever other calls run on the adapter meanwhile.
C3_SameOrderAndLength ==
  \A c \in Callers :
    (Finished(c, "signPsbts") /\ calls[c].rpcFailure = NoError)
      => /\ calls[c].outcome.kind = "return"
         /\ Len(calls[c].outcome.value) = Len(calls[c].args[1])
         /\ Len(calls[c].responses) = Len(calls[c].args[1])
         /\ \A k \in 1..Len(calls[c].args[1]) :
              /\ AnswersInput(calls[c].responses[k], calls[c].args[1][k])
              /\ BufferFromHex(calls[c].outcome.value[k])
                   = BufferFromBase64(calls[c].responses[k].psbt)

\* C3 witness: a batch of two different PSBTs has returned while another
\* caller's batch is between its first and its last item.
C3_Witness ==
  \E c, d \in Callers :
    /\ c # d
    /\ Returned(c, "signPsbts")
    /\ Len(calls[c].args[1]) = 2
    /\ calls[c].args[1][1] # calls[c].args[1][2]
    /\ calls[d].op = "signPsbts" /\ calls[d].pc = "await" /\ calls[d].i = 2

\* C4: when an item of signPsbts fails after earlier items were signed, the
\* earlier signed results are not lost: the failure delivered to the caller
\* carries them.
C4_EarlierResultsNotLost ==
  \A c \in Callers :
    (Finished(c, "signPsbts") /\ calls[c].outcome.kind = "throw"
       /\ Len(calls[c].signedPsbts) > 0)
      => calls[c].outcome.value = calls[c].signedPsbts

\* C5: when the node's response has complete = false, signPsbt does not
\* fail: it returns the hex of the response's PSBT, a plain hex string as for
\* a complete signing.
C5_IncompleteStillReturns ==
  \A c \in Callers :
    (Finished(c, "signPsbt") /\ Len(calls[c].responses) = 1
       /\ ~calls[c].responses[1].complete)
      => /\ calls[c].outcome.kind = "return"
         /\ calls[c].outcome.error = NoError
         /\ calls[c].outcome.value \in Seq(0..15)
         /\ BufferFromHex(calls[c].outcome.value)
              = BufferFromBase64(calls[c].responses[1].psbt)

C5_Witness ==
  \E c \in Callers :
    /\ Returned(c, "signPsbt")
    /\ Len(calls[c].responses) = 1
    /\ ~calls[c].responses[1].complete
    /\ Len(calls[c].outcome.value) > 0

\* C6: connectWallet, when the node answers, returns the adapter instance
\* itself.
C6_ReturnsSelf ==
  \A c \in Callers :
    Returned(c, "connectWallet")
      => /\ DOMAIN calls[c].outcome.value = DOMAIN Self
         /\ calls[c].outcome.value.adapter = Self.adapter

ContractOps ==
  {"connectWallet", "getAddress", "getPublicKeyHex", "getPublicKey", "signPsbt",
   "signPsbts", "signMessageBIP322", "getBalance", "getNetworkFees", "pushTx",
   "getUtxos", "getBTCTipHeight"}

\* C7: if an RPC call issued by an operation fails, the operation ends in a
\* failure delivered to its caller, never in a return value; the failure is
\* the RPC error itself, except that connectWallet delivers an error whose
\* message is 'Failed to connect to Bitcoin Core: ' followed by the RPC
\* error's message.
C7_RpcFailurePropagates ==
  \A c \in Callers :
    (calls[c].pc = "done" /\ calls[c].op \in ContractOps /\ calls[c].rpcFailure # NoError)
      => /\ calls[c].outcome.kind = "throw"
         /\ IF calls[c].op = "connectWallet"
            THEN calls[c].outcome.error.message
                   = "Failed to connect to Bitcoin Core: " \o calls[c].rpcFailure.message
            ELSE calls[c].outcome.error = calls[c].rpcFailure

\* C7 witness: getUtxos has ended on a failed listUnspent.
C7_Witness ==
  \E c \in Callers :
    /\ Finished(c, "getUtxos")
    /\ calls[c].rpcFailure \in RpcErrors
    /\ calls[c].outcome.kind = "throw"

\* C8: getUtxos(address) without an amount returns every listed output, in
\* the listed order, with value = listed amount * 1e8 and txid, vout and
\* script unchanged.
C8_AllUtxosConverted ==
  \A c \in Callers :
    (Returned(c, "getUtxos") /\ ~calls[c].args[2].given)
      => calls[c].outcome.value
           = [k \in 1..Len(calls[c].responses[1]) |-> ExactUtxo(calls[c].responses[1][k])]

\* C9: on(eventName, callback) with an event name other than
\* "accountChanged" is a no-op: no listener is registered for that name and
\* no error is raised.
C9_UnsupportedEventNoOp ==
  \A c \in Callers :
    (Finished(c, "on") /\ calls[c].args[1] # "accountChanged")
      => /\ calls[c].outcome.kind = "return"
         /\ \A l \in listeners : l[1] = "accountChanged"

\* C10: the address getAddress returns carries the label "primary".
C10_ReturnsPrimaryLabelled ==
  \A c \in Callers :
    Returned(c, "getAddress")
      => addressBook[calls[c].outcome.value] = PrimaryLabel

\* C11: within one signPsbts call the signing requests go out one at a time
\* and in input order: the request for an item is issued only when the
\* responses for all items before it have been received, at most one request
\* is outstanding, and when the request for item k fails no request for a
\* later item has been or will be issued and the call fails with that error,
\* delivering none of the results of the items before k.
C11_SequentialStopAtFirstFailure ==
  \A c \in Callers :
    calls[c].op = "signPsbts"
      => LET call == calls[c]
             failed == call.rpcFailure # NoError
             outstanding == Len(call.sent) - Len(call.responses)
                              - (IF failed THEN 1 ELSE 0)
         IN  /\ \A j \in 1..Len(call.sent) : call.sent[j] = j
             /\ Len(call.sent) <= Len(call.args[1])
             /\ outstanding \in {0, 1}
             /\ (outstanding = 1) = (call.pc = "await")
             /\ call.pc = "await"
                  => call.rpc.params = ProcessPsbtParams(call.args[1][Len(call.sent)])
             /\ failed
                  => /\ call.pc = "done"
                     /\ call.rpc = NoRpc
                     /\ call.outcome.kind = "throw"
                     /\ call.outcome.error = call.rpcFailure
                     /\ call.outcome.value = Undefined

\* C11 witness: of three items the first was signed, the request for the
\* second failed, and the third was never requested.
C11_Witness ==
  \E c \in Callers :
    /\ Finished(c, "signPsbts")
    /\ Len(calls[c].args[1]) = 3
    /\ calls[c].rpcFailure \in RpcErrors
    /\ Len(calls[c].signedPsbts) = 1
    /\ calls[c].sent = <<1, 2>>

\* C12: a target amount of 0 is treated like an absent amount:
\* getUtxos(address, 0) returns every listed output, one entry per output in
\* the listed order, exactly as getUtxos(address) does for the same listing,
\* and not the one-element prefix that covers 0.
C12_ZeroAmountReturnsAll ==
  \A c \in Callers :
    (Returned(c, "getUtxos") /\ calls[c].args[2].given /\ calls[c].args[2].value = 0)
      => LET utxos == calls[c].responses[1]
             result == calls[c].outcome.value
         IN  /\ Len(result) = Len(utxos)
             /\ \A k \in 1..Len(utxos) :
                  /\ result[k].txid = utxos[k].txid
                  /\ result[k].vout = utxos[k].vout
                  /\ result[k].scriptPubKey = utxos[k].scriptPubKey
                  /\ result[k].value = BtcToSatoshis(utxos[k].amount)

\* C12 witness: getUtxos(address, 0) has answered a listing of two outputs.
C12_Witness ==
  \E c \in Callers :
    /\ Returned(c, "getUtxos")
    /\ calls[c].args[2] = [given |-> TRUE, value |-> 0]
    /\ Len(calls[c].responses[1]) = 2
    /\ Len(calls[c].outcome.value) = 2

====
